---- MODULE Spec2Model ----
(***************************************************************************)
(* Model of the libp2p-bitswap wire codecs: the token codec (token.rs),    *)
(* the native length-framed request/response codec (protocol.rs) and the   *)
(* protobuf compatibility codec (compat/message.rs).                       *)
(*                                                                         *)
(* Byte strings (Vec<u8>, &[u8]) are kept run-length encoded: a sequence   *)
(* of runs [b |-> byte, n |-> count], adjacent runs holding different      *)
(* bytes.  Every byte string has exactly one such form, so equality of     *)
(* forms is equality of byte strings, and a payload at the 1 MiB ceiling   *)
(* is a value the model can hold.                                          *)
(*                                                                         *)
(* Integers are exact below WIDE = 2^28 (four varint groups); a varint     *)
(* that decodes to more saturates at WIDE.  Every size the codecs compare  *)
(* against is far below WIDE.                                              *)
(***************************************************************************)
EXTENDS Integers, Sequences, FiniteSets, TLC

VARIABLES buffer, wire, last, msg, pushed, inp, stale

vars == <<buffer, wire, last, msg, pushed, inp, stale>>

(***************************************************************************)
(* Results: io::Result<T> plus the panic outcome of a Rust function.       *)
(***************************************************************************)
Ok(v) == [tag |-> "Ok", val |-> v]

Err(kind, e, a) == [tag |-> "Err", kind |-> kind, err |-> e, arg |-> a]

Panic(why) == [tag |-> "Panic", why |-> why]

IsOk(r) == r.tag = "Ok"

IsErr(r) == r.tag = "Err"

IsPanic(r) == r.tag = "Panic"

\* F applied to the value of v, v evaluated once
With(v, F(_)) == CHOOSE y \in {F(x) : x \in {v}} : TRUE

Max(a, b) == IF a >= b THEN a ELSE b

Min(a, b) == IF a <= b THEN a ELSE b

(***************************************************************************)
(* Byte strings.                                                           *)
(***************************************************************************)
Run(b, n) == [b |-> b, n |-> n]

RECURSIVE BLen(_)
BLen(s) == IF s = <<>> THEN 0 ELSE s[1].n + BLen(Tail(s))

BCat(s, t) ==
    IF s = <<>> THEN t
    ELSE IF t = <<>> THEN s
    ELSE IF s[Len(s)].b = t[1].b
         THEN SubSeq(s, 1, Len(s) - 1)
                \o <<Run(t[1].b, s[Len(s)].n + t[1].n)>> \o Tail(t)
         ELSE s \o t

BFill(b, n) == IF n = 0 THEN <<>> ELSE <<Run(b, n)>>

RECURSIVE OfSeq(_)
OfSeq(q) == IF q = <<>> THEN <<>> ELSE BCat(BFill(q[1], 1), OfSeq(Tail(q)))

RECURSIVE BTake(_, _)
BTake(s, k) ==
    IF k = 0 \/ s = <<>> THEN <<>>
    ELSE IF s[1].n <= k THEN <<s[1]>> \o BTake(Tail(s), k - s[1].n)
    ELSE <<Run(s[1].b, k)>>

RECURSIVE BDrop(_, _)
BDrop(s, k) ==
    IF k = 0 \/ s = <<>> THEN s
    ELSE IF s[1].n <= k THEN BDrop(Tail(s), k - s[1].n)
    ELSE <<Run(s[1].b, s[1].n - k)>> \o Tail(s)

(***************************************************************************)
(* unsigned-varint.                                                        *)
(***************************************************************************)
WIDE == 128 * 2097152

U64_MAX_BYTES == 10

U32_MAX_BYTES == 5

\* 128^i for the groups whose weight is below WIDE
Pow128(i) == IF i = 0 THEN 1 ELSE IF i = 1 THEN 128 ELSE IF i = 2 THEN 16384 ELSE 2097152

\* the weight of 7-bit group k at position i, saturating
Group(i, k) == IF i >= 4 THEN (IF k > 0 THEN WIDE ELSE 0) ELSE k * Pow128(i)

\* unsigned_varint::encode::u64 / u32: little-endian base 128, minimal
RECURSIVE VarintEncode(_)
VarintEncode(n) ==
    IF n < 128 THEN BFill(n, 1)
    ELSE BCat(BFill(128 + (n % 128), 1), VarintEncode(n \div 128))

\* unsigned_varint::io::read_u64 / aio::read_u32 on reader r: one byte at a time,
\* at most maxBytes; decode::uN then rejects a non-minimal encoding.
\* The result carries the reader's remaining bytes.
RECURSIVE VarintReadFrom(_, _, _, _)
VarintReadFrom(r, i, acc, maxBytes) ==
    IF i = maxBytes THEN Err("InvalidData", "Overflow", 0)
    ELSE IF r = <<>> THEN Err("UnexpectedEof", "Io", 0)
    ELSE IF r[1].b < 128
    THEN IF r[1].b = 0 /\ i > 0
         THEN Err("InvalidData", "NotMinimal", 0)
         ELSE [tag |-> "Ok", val |-> Min(WIDE, acc + Group(i, r[1].b)),
               rest |-> BDrop(r, 1)]
    ELSE VarintReadFrom(BDrop(r, 1), i + 1,
                        Min(WIDE, acc + Group(i, r[1].b % 128)), maxBytes)

read_u64(r) == VarintReadFrom(r, 0, 0, U64_MAX_BYTES)

read_u32(r) == VarintReadFrom(r, 0, 0, U32_MAX_BYTES)

(***************************************************************************)
(* token.rs                                                                *)
(***************************************************************************)
Token(codec, value) == [codec |-> codec, value |-> value]

\* Token::write_to on a Vec<u8>: io::Write for Vec<u8> appends to the vector
Token_write_to(t, w) ==
    BCat(w, BCat(VarintEncode(t.codec),
                 BCat(VarintEncode(BLen(t.value)), t.value)))

\* TokenValue with the value one byte short
TokenValue_Short(c, l) ==
    IF BLen(l.rest) < l.val
    THEN Err("UnexpectedEof", "Io", 0) @@ [alloc |-> l.val]
    ELSE [tag |-> "Ok", val |-> Token(c.val, BTake(l.rest, l.val - 1)),
          rest |-> BDrop(l.rest, l.val), alloc |-> l.val]

\* the value of a token: vec![0; token_length], then r.read_exact(&mut token)
TokenValue(c, l) ==
    IF BLen(l.rest) < l.val
    THEN Err("UnexpectedEof", "Io", 0) @@ [alloc |-> l.val]
    ELSE [tag |-> "Ok", val |-> Token(c.val, BTake(l.rest, l.val)),
          rest |-> BDrop(l.rest, l.val), alloc |-> l.val]

\* Token::read_bytes: the value buffer is allocated from the declared length
\* before any of it is read.  alloc is the size of that buffer.
Token_read_bytes(r) ==
    With(read_u64(r), LAMBDA c :
        IF ~IsOk(c) THEN c @@ [alloc |-> 0]
        ELSE With(read_u64(c.rest), LAMBDA l :
            IF ~IsOk(l) THEN l @@ [alloc |-> 0] ELSE TokenValue(c, l)))

\* Token::to_vec: the vector starts with 8 + 8 + len zero bytes and write_to
\* appends the encoding after them
Token_to_vec(t) == Token_write_to(t, BFill(0, 8 + 8 + BLen(t.value)))

\* Token::from_bytes
Token_from_bytes(bytes) ==
    With(Token_read_bytes(bytes), LAMBDA r :
        IF IsOk(r) THEN Ok(r.val) ELSE Err(r.kind, r.err, r.arg))

(***************************************************************************)
(* libipld Cid, as protocol.rs and compat/message.rs use it: a value with  *)
(* a canonical byte form.  A CIDv1 is varint(version) varint(codec) and a  *)
(* multihash varint(code) varint(size) digest; the two leading bytes       *)
(* 0x12 0x20 announce a CIDv0, a bare sha2-256 multihash.                  *)
(***************************************************************************)
MAX_DIGEST == 64

Cid(version, codec, code, digest) ==
    [version |-> version, codec |-> codec, code |-> code, digest |-> digest]

\* cid.write_bytes(w) / cid.to_bytes()
Cid_write_bytes(c, w) ==
    IF c.version = 0
    THEN BCat(w, BCat(OfSeq(<<18, 32>>), c.digest))
    ELSE BCat(w, BCat(VarintEncode(c.version),
                 BCat(VarintEncode(c.codec),
                 BCat(VarintEncode(c.code),
                 BCat(VarintEncode(BLen(c.digest)), c.digest)))))

\* Multihash::read, after the version and the codec of a CIDv1
Multihash_read(codec, r) ==
    With(read_u64(r), LAMBDA code :
        IF ~IsOk(code) THEN Err("Cid", "VarIntDecodeError", 0)
        ELSE With(read_u64(code.rest), LAMBDA size :
            IF ~IsOk(size) THEN Err("Cid", "VarIntDecodeError", 0)
            ELSE IF size.val > MAX_DIGEST THEN Err("Cid", "InvalidSize", size.val)
            ELSE IF BLen(size.rest) < size.val THEN Err("Cid", "ParsingError", 0)
            ELSE [tag |-> "Ok",
                  val |-> Cid(1, codec, code.val, BTake(size.rest, size.val)),
                  rest |-> BDrop(size.rest, size.val)]))

\* Cid::read_bytes(r) / Cid::try_from(&[u8])
Cid_read_bytes(r) ==
    With(read_u64(r), LAMBDA version :
        IF ~IsOk(version) THEN Err("Cid", "VarIntDecodeError", 0)
        ELSE With(read_u64(version.rest), LAMBDA codec :
            IF ~IsOk(codec) THEN Err("Cid", "VarIntDecodeError", 0)
            ELSE IF version.val = 18 /\ codec.val = 32
            THEN IF BLen(codec.rest) < 32 THEN Err("Cid", "ParsingError", 0)
                 ELSE [tag |-> "Ok",
                       val |-> Cid(0, 112, 18, BTake(codec.rest, 32)),
                       rest |-> BDrop(codec.rest, 32)]
            ELSE IF version.val = 0 THEN Err("Cid", "InvalidExplicitCidV0", 0)
            ELSE IF version.val # 1 THEN Err("Cid", "InvalidCidVersion", 0)
            ELSE Multihash_read(codec.val, codec.rest)))

(***************************************************************************)
(* protocol.rs: requests and responses                                     *)
(***************************************************************************)
MAX_CID_SIZE == 4 * 10 + 64

MAX_TOKEN_SIZE == 1024 * 1024

\* P::MAX_BLOCK_SIZE of the store parameters (libipld's DefaultParams)
MAX_BLOCK_SIZE == 1024 * 1024

BitswapRequest(ty, cid, tokens) == [ty |-> ty, cid |-> cid, tokens |-> tokens]

Have(b) == [is |-> "Have", have |-> b, data |-> <<>>]

Block(data) == [is |-> "Block", have |-> FALSE, data |-> data]

\* invalid_data(e): io::Error::new(InvalidData, e)
invalid_data(e) == Err("InvalidData", e.err, e.arg)

\* other(e): io::Error::new(Other, e)
other(e) == Err("Other", e.err, e.arg)

\* RequestTag with both request types given the tag of Have
RequestTag_Same(ty) == 0

\* the tag byte of a request
RequestTag(ty) == IF ty = "Have" THEN 0 ELSE 1

\* for token in tokens { token.write_to(w) }
RECURSIVE WriteTokens(_, _)
WriteTokens(tokens, w) ==
    IF tokens = <<>> THEN w
    ELSE WriteTokens(Tail(tokens), Token_write_to(tokens[1], w))

\* BitswapRequest::write_to on a Vec<u8>
BitswapRequest_write_to(req, w) ==
    WriteTokens(req.tokens,
        BCat(Cid_write_bytes(req.cid, BCat(w, BFill(RequestTag(req.ty), 1))),
             VarintEncode(Len(req.tokens))))

\* for _ in 0..tokens_len { tokens.push(Token::read_bytes(&mut r)?) }
RECURSIVE ReadTokens(_, _, _, _)
ReadTokens(r, n, acc, alloc) ==
    IF n = 0 THEN [tag |-> "Ok", val |-> acc, rest |-> r, alloc |-> alloc]
    ELSE With(Token_read_bytes(r), LAMBDA t :
        IF ~IsOk(t)
        THEN Err(t.kind, t.err, t.arg) @@ [alloc |-> Max(alloc, t.alloc)]
        ELSE ReadTokens(t.rest, n - 1, Append(acc, t.val), Max(alloc, t.alloc)))

\* BitswapRequest::read_bytes.  alloc is the largest element count reserved:
\* the token list's capacity, taken from the declared count, or a token's
\* value buffer.
BitswapRequest_read_bytes(r) ==
    IF r = <<>> THEN Err("UnexpectedEof", "Io", 0) @@ [alloc |-> 0]
    ELSE IF r[1].b \notin {0, 1}
    THEN invalid_data(Err("", "UnknownMessageType", r[1].b)) @@ [alloc |-> 0]
    ELSE With(Cid_read_bytes(BDrop(r, 1)), LAMBDA cid :
        IF ~IsOk(cid) THEN invalid_data(cid) @@ [alloc |-> 0]
        ELSE With(read_u64(cid.rest), LAMBDA tokens_len :
            IF ~IsOk(tokens_len) THEN tokens_len @@ [alloc |-> 0]
            ELSE With(ReadTokens(tokens_len.rest, tokens_len.val, <<>>,
                                 tokens_len.val),
                      LAMBDA ts :
                IF ~IsOk(ts) THEN ts
                ELSE [tag |-> "Ok",
                      val |-> BitswapRequest(IF r[1].b = 0 THEN "Have" ELSE "Block",
                                             cid.val, ts.val),
                      rest |-> ts.rest, alloc |-> ts.alloc])))

\* BitswapRequest::from_bytes
BitswapRequest_from_bytes(bytes) ==
    With(BitswapRequest_read_bytes(bytes), LAMBDA r :
        IF IsOk(r) THEN Ok(r.val) @@ [alloc |-> r.alloc] ELSE r)

\* BitswapResponse::write_to on a Vec<u8>
BitswapResponse_write_to(res, w) ==
    IF res.is = "Have"
    THEN BCat(w, BFill(IF res.have THEN 0 ELSE 2, 1))
    ELSE BCat(BCat(w, BFill(1, 1)), res.data)

\* BitswapResponse::from_bytes with every tag but 0 and 1 read as Have(false)
BitswapResponse_from_bytes_Lenient(bytes) ==
    IF bytes = <<>> THEN Panic("index out of bounds")
    ELSE IF bytes[1].b = 0 THEN Ok(Have(TRUE))
    ELSE IF bytes[1].b = 1 THEN Ok(Block(BDrop(bytes, 1)))
    ELSE Ok(Have(FALSE))

\* BitswapResponse::from_bytes: bytes[0] is indexed without a length check
BitswapResponse_from_bytes(bytes) ==
    IF bytes = <<>> THEN Panic("index out of bounds")
    ELSE IF bytes[1].b \in {0, 2} THEN Ok(Have(bytes[1].b = 0))
    ELSE IF bytes[1].b = 1 THEN Ok(Block(BDrop(bytes, 1)))
    ELSE invalid_data(Err("", "UnknownMessageType", bytes[1].b))

(***************************************************************************)
(* protocol.rs: BitswapCodec.  Each operation takes the codec's buffer     *)
(* (and the stream) and gives the result with the buffer it leaves.        *)
(***************************************************************************)
\* Resize that never shortens the vector
Resize_Grow(v, n) ==
    IF BLen(v) >= n THEN v ELSE BCat(v, BFill(0, n - BLen(v)))

\* Vec::resize(n, 0)
Resize(v, n) ==
    IF BLen(v) >= n THEN BTake(v, n) ELSE BCat(v, BFill(0, n - BLen(v)))

\* io.read_exact(&mut buf) from a stream holding `io`: fills what there is
ReadExact(buf, io) ==
    IF BLen(io) >= BLen(buf) THEN BTake(io, BLen(buf))
    ELSE BCat(io, BDrop(buf, BLen(io)))

\* the frame length: aio::read_u32 with its errors mapped
ReadLen(io) ==
    With(read_u32(io), LAMBDA l :
        IF IsOk(l) THEN l ELSE IF l.err = "Io" THEN l ELSE other(l))

\* the first half of read_request / read_response on a stream holding `io`:
\* the length, the ceiling check, resize and read_exact
ReadFrame(buf, io, ceiling) ==
    With(ReadLen(io), LAMBDA l :
        IF ~IsOk(l) THEN [res |-> l, buffer |-> buf, alloc |-> 0]
        ELSE IF l.val > ceiling
        THEN [res |-> invalid_data(Err("", "MessageTooLarge", l.val)),
              buffer |-> buf, alloc |-> 0]
        ELSE [res |-> IF BLen(l.rest) < l.val
                      THEN Err("UnexpectedEof", "Io", 0) ELSE Ok(<<>>),
              buffer |-> ReadExact(Resize(buf, l.val), l.rest),
              alloc |-> l.val])

\* the second half: from_bytes(&self.buffer).map_err(invalid_data)
Decoded(f, d) ==
    [res |-> IF IsErr(d) THEN invalid_data(d)
             ELSE IF IsOk(d) THEN Ok(d.val) ELSE d,
     buffer |-> f.buffer,
     alloc |-> IF IsPanic(d) THEN f.alloc ELSE Max(f.alloc, d.alloc)]

read_request(buf, io) ==
    With(ReadFrame(buf, io, MAX_CID_SIZE + MAX_TOKEN_SIZE + 1), LAMBDA f :
        IF ~IsOk(f.res) THEN f
        ELSE With(BitswapRequest_from_bytes(f.buffer), LAMBDA d : Decoded(f, d)))

read_response(buf, io) ==
    With(ReadFrame(buf, io, MAX_BLOCK_SIZE + 1), LAMBDA f :
        IF ~IsOk(f.res) THEN f
        ELSE With(BitswapResponse_from_bytes(f.buffer) @@ [alloc |-> 0],
                  LAMBDA d : Decoded(f, d)))

\* WriteFrame with the ceiling itself rejected
WriteFrame_OffByOne(encoded, ceiling) ==
    IF BLen(encoded) >= ceiling
    THEN [res |-> invalid_data(Err("", "MessageTooLarge", BLen(encoded))),
          buffer |-> encoded, out |-> <<>>]
    ELSE [res |-> Ok(<<>>), buffer |-> encoded,
          out |-> BCat(VarintEncode(BLen(encoded)), encoded)]

\* the second half of write_request / write_response, the buffer holding the
\* encoding: the bytes written to the stream are out
WriteFrame(encoded, ceiling) ==
    IF BLen(encoded) > ceiling
    THEN [res |-> invalid_data(Err("", "MessageTooLarge", BLen(encoded))),
          buffer |-> encoded, out |-> <<>>]
    ELSE [res |-> Ok(<<>>), buffer |-> encoded,
          out |-> BCat(VarintEncode(BLen(encoded)), encoded)]

\* Vec::clear
Clear(v) == <<>>

write_request(buf, req) ==
    With(BitswapRequest_write_to(req, Clear(buf)), LAMBDA encoded :
        WriteFrame(encoded, MAX_CID_SIZE + MAX_TOKEN_SIZE + 1))

write_response(buf, res) ==
    With(BitswapResponse_write_to(res, Clear(buf)), LAMBDA encoded :
        WriteFrame(encoded, MAX_BLOCK_SIZE + 1))

\* the frame ceilings as the specification states them
RequestCeiling == 104 + 1048576 + 1

ResponseCeiling == 1048576 + 1

(***************************************************************************)
(* compat/message.rs.  A bitswap_pb::Message is a record of its fields: the *)
(* optional want-list (a sequence of none or one), the payload entries,    *)
(* the block presences and the token table.  Token indices are i32.        *)
(***************************************************************************)
\* bitswap_pb::Message::default()
DefaultMessage ==
    [wantlist |-> <<>>, payload |-> <<>>, blockPresences |-> <<>>, tokens |-> <<>>]

\* the enum values of the protobuf schema
WantType_Block == 0

WantType_Have == 1

BlockPresenceType_Have == 0

BlockPresenceType_DontHave == 1

Request(req) == [is |-> "Request", req |-> req]

Response(cid, res, tokens) == [is |-> "Response", cid |-> cid, res |-> res, tokens |-> tokens]

\* the first index of bytes in the table from position i on, or -1
RECURSIVE Position(_, _, _)
Position(table, bytes, i) ==
    IF i > Len(table) THEN -1
    ELSE IF table[i] = bytes THEN i - 1
    ELSE Position(table, bytes, i + 1)

\* push_token: the index of the token's bytes, pushed if not yet in the table
push_token(message, token) ==
    With(Position(message.tokens, Token_to_vec(token), 1), LAMBDA i :
        IF i >= 0 THEN [msg |-> message, idx |-> i]
        ELSE [msg |-> [message EXCEPT !.tokens = Append(@, Token_to_vec(token))],
              idx |-> Len(message.tokens)])

\* tokens.iter().map(|token| push_token(&mut msg, token)).collect()
RECURSIVE PushAll(_, _, _)
PushAll(message, tokens, idxs) ==
    IF tokens = <<>> THEN [msg |-> message, idxs |-> idxs]
    ELSE With(push_token(message, tokens[1]), LAMBDA p :
        PushAll(p.msg, Tail(tokens), Append(idxs, p.idx)))

\* msg.write_message(&mut writer) and Message::from_reader: the generated
\* protobuf code, which carries every field of the message
write_message(message) == [pb |-> message]

from_reader(bytes) == Ok(bytes.pb)

\* Prefix::from(cid).to_bytes(): version, codec, hash algorithm, hash length
Prefix_to_bytes(cid) ==
    BCat(VarintEncode(cid.version),
         BCat(VarintEncode(cid.codec),
              BCat(VarintEncode(cid.code), VarintEncode(BLen(cid.digest)))))

\* the digest of data under a hash algorithm, len bytes long
Digest(code, data, len) == BFill((code + BLen(data)) % 256, len)

\* Prefix::new(bytes) and prefix.to_cid(data)
Prefix_to_cid(bytes, data) ==
    With(read_u64(bytes), LAMBDA version :
    IF ~IsOk(version) THEN Err("InvalidData", "Prefix", 0)
    ELSE With(read_u64(version.rest), LAMBDA codec :
    IF ~IsOk(codec) THEN Err("InvalidData", "Prefix", 0)
    ELSE With(read_u64(codec.rest), LAMBDA code :
    IF ~IsOk(code) THEN Err("InvalidData", "Prefix", 0)
    ELSE With(read_u64(code.rest), LAMBDA len :
    IF ~IsOk(len) \/ version.val > 1 THEN Err("InvalidData", "Prefix", 0)
    ELSE Ok(Cid(version.val, codec.val, code.val,
                Digest(code.val, data, len.val)))))))

\* CompatMessage::to_bytes
CompatMessage_to_bytes(v) ==
    With(PushAll(DefaultMessage, IF v.is = "Request" THEN v.req.tokens ELSE v.tokens,
                 <<>>),
         LAMBDA p :
        IF v.is = "Request"
        THEN write_message([p.msg EXCEPT !.wantlist =
                <<[entries |-> <<[block |-> Cid_write_bytes(v.req.cid, <<>>),
                                  wantType |-> IF v.req.ty = "Have"
                                               THEN WantType_Have ELSE WantType_Block,
                                  sendDontHave |-> TRUE,
                                  cancel |-> FALSE,
                                  priority |-> 1,
                                  tokens |-> p.idxs]>>]>>])
        ELSE IF v.res.is = "Have"
        THEN write_message([p.msg EXCEPT !.blockPresences =
                <<[cid |-> Cid_write_bytes(v.cid, <<>>),
                   type_pb |-> IF v.res.have THEN BlockPresenceType_Have
                               ELSE BlockPresenceType_DontHave,
                   tokens |-> p.idxs]>>])
        ELSE write_message([p.msg EXCEPT !.payload =
                <<[prefix |-> Prefix_to_bytes(v.cid),
                   data |-> v.res.data,
                   tokens |-> p.idxs]>>]))

\* extract_tokens with an index outside the table passed over
RECURSIVE extract_tokens_Skip(_, _, _)
extract_tokens_Skip(message, indices, acc) ==
    IF indices = <<>> THEN Ok(acc)
    ELSE IF indices[1] < 0 \/ indices[1] >= Len(message.tokens)
    THEN extract_tokens_Skip(message, Tail(indices), acc)
    ELSE With(Token_from_bytes(message.tokens[indices[1] + 1]), LAMBDA t :
        IF ~IsOk(t) THEN t
        ELSE extract_tokens_Skip(message, Tail(indices), Append(acc, t.val)))

\* extract_tokens: `*index as usize` sends a negative index past any table
RECURSIVE extract_tokens(_, _, _)
extract_tokens(message, indices, acc) ==
    IF indices = <<>> THEN Ok(acc)
    ELSE IF indices[1] < 0 \/ indices[1] >= Len(message.tokens)
    THEN Err("InvalidData", "Kind", 0)
    ELSE With(Token_from_bytes(message.tokens[indices[1] + 1]), LAMBDA t :
        IF ~IsOk(t) THEN t
        ELSE extract_tokens(message, Tail(indices), Append(acc, t.val)))

\* what one want-list entry does to from_bytes: "skip", an error, or Ok(part)
WantEntry(message, entry) ==
    IF ~entry.sendDontHave THEN [tag |-> "Skip"]
    ELSE With(Cid_read_bytes(entry.block), LAMBDA cid :
        IF ~IsOk(cid) THEN other(cid)
        ELSE IF entry.wantType \notin {WantType_Have, WantType_Block}
        THEN [tag |-> "Skip"]
        ELSE With(extract_tokens(message, entry.tokens, <<>>), LAMBDA ts :
            IF ~IsOk(ts) THEN ts
            ELSE Ok(Request(BitswapRequest(
                        IF entry.wantType = WantType_Have THEN "Have" ELSE "Block",
                        cid.val, ts.val)))))

\* one payload entry
PayloadEntry(message, payload) ==
    With(Prefix_to_cid(payload.prefix, payload.data), LAMBDA cid :
        IF ~IsOk(cid) THEN cid
        ELSE With(extract_tokens(message, payload.tokens, <<>>), LAMBDA ts :
            IF ~IsOk(ts) THEN ts
            ELSE Ok(Response(cid.val, Block(payload.data), ts.val))))

\* PresenceEntry with an unrecognized type failing the message
PresenceEntry_Strict(message, presence) ==
    With(Cid_read_bytes(presence.cid), LAMBDA cid :
        IF ~IsOk(cid) THEN other(cid)
        ELSE IF presence.type_pb \notin {BlockPresenceType_Have,
                                         BlockPresenceType_DontHave}
        THEN Err("InvalidData", "UnknownMessageType", presence.type_pb)
        ELSE With(extract_tokens(message, presence.tokens, <<>>), LAMBDA ts :
            IF ~IsOk(ts) THEN ts
            ELSE Ok(Response(cid.val,
                             Have(presence.type_pb = BlockPresenceType_Have),
                             ts.val))))

\* one block-presence entry
PresenceEntry(message, presence) ==
    With(Cid_read_bytes(presence.cid), LAMBDA cid :
        IF ~IsOk(cid) THEN other(cid)
        ELSE IF presence.type_pb \notin {BlockPresenceType_Have,
                                         BlockPresenceType_DontHave}
        THEN [tag |-> "Skip"]
        ELSE With(extract_tokens(message, presence.tokens, <<>>), LAMBDA ts :
            IF ~IsOk(ts) THEN ts
            ELSE Ok(Response(cid.val,
                             Have(presence.type_pb = BlockPresenceType_Have),
                             ts.val))))

\* the three loops of from_bytes, in order, over what is left of each list:
\* the first error ends the decode, a skipped entry adds nothing
RECURSIVE DecodeEntries(_, _, _, _, _)
DecodeEntries(message, wants, payloads, presences, parts) ==
    IF wants # <<>>
    THEN With(WantEntry(message, wants[1]), LAMBDA e :
        IF IsErr(e) THEN e
        ELSE DecodeEntries(message, Tail(wants), payloads, presences,
                           IF IsOk(e) THEN Append(parts, e.val) ELSE parts))
    ELSE IF payloads # <<>>
    THEN With(PayloadEntry(message, payloads[1]), LAMBDA e :
        IF IsErr(e) THEN e
        ELSE DecodeEntries(message, wants, Tail(payloads), presences,
                           Append(parts, e.val)))
    ELSE IF presences # <<>>
    THEN With(PresenceEntry(message, presences[1]), LAMBDA e :
        IF IsErr(e) THEN e
        ELSE DecodeEntries(message, wants, payloads, Tail(presences),
                           IF IsOk(e) THEN Append(parts, e.val) ELSE parts))
    ELSE Ok(parts)

\* CompatMessage::from_bytes
CompatMessage_from_bytes(bytes) ==
    With(from_reader(bytes), LAMBDA m :
        IF ~IsOk(m) THEN other(m)
        ELSE DecodeEntries(m.val,
                           IF m.val.wantlist = <<>> THEN <<>>
                           ELSE m.val.wantlist[1].entries,
                           m.val.payload, m.val.blockPresences, <<>>))

(***************************************************************************)
(* Inputs.                                                                 *)
(***************************************************************************)
MaxValueLen == 2

MaxTokens == 2

MaxTail == 4

\* every sequence over alphabet of length at most n
Seqs(alphabet, n) == UNION {[1..k -> alphabet] : k \in 0..n}

TokenCodecs == {0, 300}

TokenValues == {BFill(200, n) : n \in 0..MaxValueLen}

Tokens == {Token(c, v) : c \in TokenCodecs, v \in TokenValues} \cup {Token(0, OfSeq(<<0>>))}

\* token values that bring a one-token request to the frame ceiling and past it
BigValues == {BFill(7, RequestCeiling - k) : k \in 11..13}

Cids == {Cid(1, 85, 18, OfSeq(<<9, 200>>)),
         Cid(1, 300, 30, <<>>),
         Cid(0, 112, 18, BFill(5, 32))}

Requests ==
    {BitswapRequest(ty, c, ts) :
        ty \in {"Have", "Block"}, c \in Cids, ts \in Seqs(Tokens, MaxTokens)}

BigRequests ==
    {BitswapRequest("Block", Cid(1, 85, 18, OfSeq(<<9, 200>>)), <<Token(1, v)>>) :
        v \in BigValues}

Responses ==
    {Have(TRUE), Have(FALSE)}
        \cup {Block(OfSeq(q)) : q \in Seqs({0, 1, 200}, MaxValueLen)}

BigResponses == {Block(BFill(7, ResponseCeiling - k)) : k \in 0..2}

\* byte strings a peer may send as a request payload: any tail after nothing,
\* after a tag and an identifier, or after the start of a one-token list
RequestPayloads ==
    {BCat(pre, OfSeq(q)) :
        pre \in {<<>>,
                 Cid_write_bytes(Cid(1, 85, 18, OfSeq(<<9, 200>>)), OfSeq(<<0>>)),
                 Cid_write_bytes(Cid(1, 85, 18, OfSeq(<<9, 200>>)), OfSeq(<<1>>)),
                 BCat(Cid_write_bytes(Cid(1, 85, 18, <<>>), OfSeq(<<1>>)),
                      OfSeq(<<1, 2>>))},
        q \in Seqs({0, 1, 3, 128}, MaxTail)}

ResponsePayloads == {OfSeq(q) : q \in Seqs({0, 1, 2, 3, 128}, MaxTail)}

\* a frame on the stream: the declared length, then the bytes that follow it
Frame(len, payload) == [len |-> len, payload |-> payload]

Stream(f) == BCat(VarintEncode(f.len), f.payload)

\* frames for the codec's state machine: whole, cut short, and around the ceiling
FramesOf(payloads, big, ceiling) ==
    {Frame(BLen(p), p) : p \in payloads \cup big}
        \cup {Frame(BLen(p) + 1, p) : p \in payloads}
        \cup {Frame(BLen(p) + 2, BCat(p, OfSeq(<<200>>))) : p \in payloads}
        \cup {Frame(ceiling + k, BFill(255, ceiling + k)) : k \in 0..1}

SomeRequests ==
    {BitswapRequest(ty, Cid(1, 85, 18, OfSeq(<<9, 200>>)), ts) :
        ty \in {"Have", "Block"},
        ts \in {<<>>, <<Token(0, <<>>)>>,
                <<Token(300, OfSeq(<<200, 0>>)), Token(0, OfSeq(<<200>>))>>}}

SomeResponses == {Have(TRUE), Have(FALSE), Block(<<>>), Block(OfSeq(<<0, 200>>))}

RequestFrames ==
    FramesOf({BitswapRequest_write_to(r, <<>>) : r \in SomeRequests}
                \cup {<<>>, OfSeq(<<3>>), OfSeq(<<0, 1, 85, 18, 0, 128, 128, 128, 1>>)},
             {BitswapRequest_write_to(r, <<>>) : r \in BigRequests},
             RequestCeiling)

ResponseFrames ==
    FramesOf({BitswapResponse_write_to(r, <<>>) : r \in SomeResponses}
                \cup {<<>>, OfSeq(<<3>>), OfSeq(<<2, 200>>)},
             {BitswapResponse_write_to(r, <<>>) : r \in BigResponses},
             ResponseCeiling)

\* what one run of a pure function is applied to
PureInputs ==
    {[k |-> "token", token |-> t, suffix |-> OfSeq(q)] :
        t \in Tokens \cup {Token(1, v) : v \in BigValues},
        q \in {<<>>, <<0>>, <<200, 1>>}}
    \cup {[k |-> "request", req |-> r] : r \in Requests \cup BigRequests}
    \cup {[k |-> "response", res |-> r] : r \in Responses \cup BigResponses}
    \cup {[k |-> "request_bytes", bytes |-> b] : b \in RequestPayloads}
    \cup {[k |-> "response_bytes", bytes |-> b] : b \in ResponsePayloads}
    \cup {[k |-> "request_frame", frame |-> Frame(BLen(b), b)] : b \in RequestPayloads}
    \cup {[k |-> "response_frame", frame |-> Frame(BLen(b), b)] : b \in ResponsePayloads}

(***************************************************************************)
(* State.  buffer is the codec's working buffer, wire the bytes the latest *)
(* write call put on the stream, last the latest call with its result.     *)
(***************************************************************************)
Call(op, arg, res, alloc) == [op |-> op, arg |-> arg, res |-> res, alloc |-> alloc]

\* BitswapCodec::default(): an empty buffer
InitCodec ==
    /\ buffer = <<>>
    /\ wire = <<>>
    /\ last = Call("new", <<>>, Ok(<<>>), 0)
    /\ msg = DefaultMessage
    /\ pushed = <<>>
    /\ stale = <<>>

Init == InitCodec /\ inp = [k |-> "none"]

ReadRequest(f) ==
    \E r \in {read_request(buffer, Stream(f))} :
    /\ buffer' = r.buffer
    /\ last' = Call("read_request", f, r.res, r.alloc)
    /\ UNCHANGED <<wire, msg, pushed, inp, stale>>

ReadResponse(f) ==
    \E r \in {read_response(buffer, Stream(f))} :
    /\ buffer' = r.buffer
    /\ last' = Call("read_response", f, r.res, r.alloc)
    /\ UNCHANGED <<wire, msg, pushed, inp, stale>>

WriteRequest(req) ==
    \E r \in {write_request(buffer, req)} :
    /\ buffer' = r.buffer
    /\ wire' = r.out
    /\ last' = Call("write_request", req, r.res, 0)
    /\ UNCHANGED <<msg, pushed, inp, stale>>

WriteResponse(res) ==
    \E r \in {write_response(buffer, res)} :
    /\ buffer' = r.buffer
    /\ wire' = r.out
    /\ last' = Call("write_response", res, r.res, 0)
    /\ UNCHANGED <<msg, pushed, inp, stale>>

Next ==
    \/ \E f \in RequestFrames : ReadRequest(f)
    \/ \E f \in ResponseFrames : ReadResponse(f)
    \/ \E r \in SomeRequests \cup BigRequests : WriteRequest(r)
    \/ \E r \in SomeResponses \cup BigResponses : WriteResponse(r)

Spec == Init /\ [][Next]_vars

(***************************************************************************)
(* The pure functions, each applied once to an input drawn at the start.   *)
(***************************************************************************)
InitPure == InitCodec /\ inp \in PureInputs

Fresh == last.op = "new"

TokenRoundTrip ==
    /\ Fresh /\ inp.k = "token"
    /\ last' = Call("token_round_trip", inp,
                    Token_read_bytes(BCat(Token_write_to(inp.token, <<>>), inp.suffix)), 0)
    /\ UNCHANGED <<buffer, wire, msg, pushed, inp, stale>>

RequestRoundTrip ==
    /\ Fresh /\ inp.k = "request"
    /\ last' = Call("request_round_trip", inp.req,
                    BitswapRequest_from_bytes(BitswapRequest_write_to(inp.req, <<>>)), 0)
    /\ UNCHANGED <<buffer, wire, msg, pushed, inp, stale>>

ResponseRoundTrip ==
    /\ Fresh /\ inp.k = "response"
    /\ last' = Call("response_round_trip", inp.res,
                    BitswapResponse_from_bytes(BitswapResponse_write_to(inp.res, <<>>)), 0)
    /\ UNCHANGED <<buffer, wire, msg, pushed, inp, stale>>

RequestFromBytes ==
    /\ Fresh /\ inp.k = "request_bytes"
    /\ last' = Call("request_from_bytes", inp.bytes,
                    BitswapRequest_from_bytes(inp.bytes), 0)
    /\ UNCHANGED <<buffer, wire, msg, pushed, inp, stale>>

ResponseFromBytes ==
    /\ Fresh /\ inp.k = "response_bytes"
    /\ last' = Call("response_from_bytes", inp.bytes,
                    BitswapResponse_from_bytes(inp.bytes), 0)
    /\ UNCHANGED <<buffer, wire, msg, pushed, inp, stale>>

ReadRequestFrame == Fresh /\ inp.k = "request_frame" /\ ReadRequest(inp.frame)

ReadResponseFrame == Fresh /\ inp.k = "response_frame" /\ ReadResponse(inp.frame)

NextPure ==
    \/ TokenRoundTrip
    \/ RequestRoundTrip
    \/ ResponseRoundTrip
    \/ RequestFromBytes
    \/ ResponseFromBytes
    \/ ReadRequestFrame
    \/ ReadResponseFrame

PureSpec == InitPure /\ [][NextPure]_vars

(***************************************************************************)
(* Claims about the native codec.                                          *)
(***************************************************************************)
Decodes == {"request_from_bytes", "response_from_bytes", "read_request", "read_response"}

TooLarge(len) == Err("InvalidData", "MessageTooLarge", len)

\* C1: whatever bytes a peer sends as a frame payload, read_request,
\* BitswapRequest::from_bytes, read_response and BitswapResponse::from_bytes
\* return a value or an io::Error; none of them panics.
C1_NeverPanics == last.op \in Decodes => ~IsPanic(last.res)

\* C3: BitswapRequest::from_bytes of the bytes write_to produced returns the
\* request that was written, and BitswapResponse::from_bytes of the bytes
\* write_to produced returns the response that was written.
C3_NativeRoundTrip ==
    /\ last.op = "request_round_trip" => IsOk(last.res) /\ last.res.val = last.arg
    /\ last.op = "response_round_trip" => IsOk(last.res) /\ last.res.val = last.arg

C3_Witness ==
    /\ last.op = "request_round_trip"
    /\ last.arg.ty = "Block"
    /\ Len(last.arg.tokens) = 2
    /\ last.arg.tokens[1].codec = 300
    /\ BLen(last.arg.tokens[2].value) = 2
    /\ IsOk(last.res)

\* C4: Token::read_bytes of the bytes Token::write_to wrote returns the token
\* that was written and consumes exactly those bytes: what follows them in the
\* reader is left unread.
C4_TokenRoundTrip ==
    last.op = "token_round_trip" =>
        /\ IsOk(last.res)
        /\ last.res.val = last.arg.token
        /\ last.res.rest = last.arg.suffix

C4_Witness ==
    /\ last.op = "token_round_trip"
    /\ last.arg.token.codec = 300
    /\ last.arg.token.value = <<>>
    /\ last.arg.suffix # <<>>
    /\ IsOk(last.res)

\* C5: read_request and write_request fail with MessageTooLarge(len) exactly
\* when the payload length len exceeds MAX_CID_SIZE + MAX_TOKEN_SIZE + 1,
\* read_response and write_response exactly when it exceeds
\* MAX_BLOCK_SIZE + 1, and a write that fails so puts nothing on the stream.
C5_CeilingEnforcement ==
    /\ last.op = "read_request" =>
        (last.res = TooLarge(last.arg.len) <=> last.arg.len > RequestCeiling)
    /\ last.op = "read_response" =>
        (last.res = TooLarge(last.arg.len) <=> last.arg.len > ResponseCeiling)
    /\ last.op = "write_request" =>
        /\ last.res = TooLarge(BLen(buffer)) <=> BLen(buffer) > RequestCeiling
        /\ BLen(buffer) > RequestCeiling => wire = <<>>
        /\ BLen(buffer) <= RequestCeiling => IsOk(last.res) /\ wire # <<>>
    /\ last.op = "write_response" =>
        /\ last.res = TooLarge(BLen(buffer)) <=> BLen(buffer) > ResponseCeiling
        /\ BLen(buffer) > ResponseCeiling => wire = <<>>
        /\ BLen(buffer) <= ResponseCeiling => IsOk(last.res) /\ wire # <<>>

C5_Witness ==
    /\ last.op = "write_request"
    /\ BLen(buffer) = RequestCeiling + 1
    /\ last.res = TooLarge(RequestCeiling + 1)
    /\ wire = <<>>

\* C9: a request payload whose first byte is neither 0 nor 1, and a response
\* payload whose first byte is none of 0, 1 and 2, fail to decode with an
\* InvalidData error wrapping UnknownMessageType(b), b that first byte,
\* whatever bytes follow.
C9_UnknownTag ==
    /\ (last.op = "request_from_bytes" /\ last.arg # <<>>
            /\ last.arg[1].b \notin {0, 1}) =>
        /\ IsErr(last.res)
        /\ last.res.kind = "InvalidData"
        /\ last.res.err = "UnknownMessageType"
        /\ last.res.arg = last.arg[1].b
    /\ (last.op = "response_from_bytes" /\ last.arg # <<>>
            /\ last.arg[1].b \notin {0, 1, 2}) =>
        last.res = Err("InvalidData", "UnknownMessageType", last.arg[1].b)

C9_Witness ==
    /\ last.op = "response_from_bytes"
    /\ BLen(last.arg) > 1
    /\ last.arg[1].b = 3
    /\ last.res = Err("InvalidData", "UnknownMessageType", 3)

\* C10: while read_request decodes a frame that passed the ceiling check, no
\* buffer it allocates or reserves (the working buffer, the token list, a
\* token's value) is larger than MAX_CID_SIZE + MAX_TOKEN_SIZE + 1.
C10_MemoryBound == last.op = "read_request" => last.alloc <= RequestCeiling

(***************************************************************************)
(* The compat codec: one value encoded and decoded again, one message      *)
(* decoded, or tokens pushed one after another into one message.           *)
(***************************************************************************)
MaxEntries == 2

MaxPush == 3

GoodCid == Cid(1, 85, 18, OfSeq(<<9, 200>>))

CompatValues ==
    {Request(r) : r \in Requests}
        \cup {Response(c, Have(b), ts) :
                c \in Cids, b \in BOOLEAN, ts \in Seqs(Tokens, MaxTokens)}

\* token tables: a token as write_to encodes it beside one as to_vec gives it,
\* and a table whose second entry is cut short
GoodTable ==
    <<Token_write_to(Token(1, OfSeq(<<9>>)), <<>>), Token_to_vec(Token(300, OfSeq(<<200>>)))>>

Tables == {GoodTable, <<Token_write_to(Token(1, OfSeq(<<9>>)), <<>>), OfSeq(<<128>>)>>}

IndexLists == {<<1, 0>>, <<0, -1>>}

Blocks == {Cid_write_bytes(GoodCid, <<>>), OfSeq(<<7>>)}

WantEntries(ixs) ==
    {[block |-> b, wantType |-> ty, sendDontHave |-> sdh, cancel |-> FALSE,
      priority |-> 1, tokens |-> ix] :
        b \in Blocks, ty \in {WantType_Block, WantType_Have, 7},
        sdh \in BOOLEAN, ix \in ixs}

PresenceEntries(ixs) ==
    {[cid |-> b, type_pb |-> ty, tokens |-> ix] :
        b \in Blocks,
        ty \in {BlockPresenceType_Have, BlockPresenceType_DontHave, 9},
        ix \in ixs}

PayloadEntries ==
    {[prefix |-> pre, data |-> OfSeq(<<200>>), tokens |-> ix] :
        pre \in {Prefix_to_bytes(GoodCid), OfSeq(<<128>>)},
        ix \in {<<0>>, <<5>>}}

Messages ==
    {[wantlist |-> <<[entries |-> es]>>, payload |-> <<>>,
      blockPresences |-> <<>>, tokens |-> GoodTable] :
        es \in Seqs(WantEntries(IndexLists), MaxEntries)}
    \cup {[wantlist |-> <<>>, payload |-> <<>>, blockPresences |-> ps,
           tokens |-> GoodTable] :
        ps \in Seqs(PresenceEntries(IndexLists), MaxEntries)}
    \cup {[wantlist |-> <<[entries |-> <<e>>]>>, payload |-> <<b>>,
           blockPresences |-> <<p>>, tokens |-> t] :
        e \in WantEntries(IndexLists \cup {<<2>>}), b \in PayloadEntries,
        p \in PresenceEntries(IndexLists \cup {<<2>>}), t \in Tables}

PushTokens ==
    {Token(0, <<>>), Token(0, OfSeq(<<0>>)), Token(300, OfSeq(<<200>>)),
     Token(1, OfSeq(<<200>>))}

CompatInputs ==
    {[k |-> "value", value |-> v] : v \in CompatValues}
        \cup {[k |-> "message", bytes |-> write_message(m)] : m \in Messages}
        \cup {[k |-> "build"]}

InitCompat == InitCodec /\ inp \in CompatInputs

CompatRoundTrip ==
    /\ Fresh /\ inp.k = "value"
    /\ last' = Call("compat_round_trip", inp.value,
                    CompatMessage_from_bytes(CompatMessage_to_bytes(inp.value)), 0)
    /\ UNCHANGED <<buffer, wire, msg, pushed, inp, stale>>

CompatFromBytes ==
    /\ Fresh /\ inp.k = "message"
    /\ last' = Call("compat_from_bytes", inp.bytes,
                    CompatMessage_from_bytes(inp.bytes), 0)
    /\ UNCHANGED <<buffer, wire, msg, pushed, inp, stale>>

PushToken(t) ==
    /\ inp.k = "build" /\ Len(pushed) < MaxPush
    /\ \E p \in {push_token(msg, t)} :
        /\ msg' = p.msg
        /\ pushed' = Append(pushed, [token |-> t, idx |-> p.idx])
        /\ last' = Call("push_token", t, Ok(p.idx), 0)
    /\ UNCHANGED <<buffer, wire, inp, stale>>

NextCompat ==
    \/ CompatRoundTrip
    \/ CompatFromBytes
    \/ \E t \in PushTokens : PushToken(t)

CompatSpec == InitCompat /\ [][NextCompat]_vars

(***************************************************************************)
(* Claims about the compat codec.                                          *)
(***************************************************************************)
\* C2: for a Request or a Response::Have with any list of tokens,
\* CompatMessage::from_bytes(v.to_bytes()) is the one-element sequence [v].
C2_CompatRoundTrip ==
    last.op = "compat_round_trip" => last.res = Ok(<<last.arg>>)

\* C6: after any sequence of push_token calls on one message the token table
\* holds no two equal entries, every index a call returned refers to the byte
\* encoding of the token that call was given (varint codec, varint length,
\* value bytes), also after later calls, and calls with equal tokens returned
\* the same index.
C6_TokenInterning ==
    /\ \A i, j \in DOMAIN msg.tokens : msg.tokens[i] = msg.tokens[j] => i = j
    /\ \A k \in DOMAIN pushed :
        /\ pushed[k].idx \in 0..(Len(msg.tokens) - 1)
        /\ msg.tokens[pushed[k].idx + 1] = Token_write_to(pushed[k].token, <<>>)
    /\ \A k, l \in DOMAIN pushed :
        pushed[k].token = pushed[l].token => pushed[k].idx = pushed[l].idx

\* C6 read of the bytes Token::to_vec returns, which are what push_token
\* stores: no two equal entries, every returned index refers to those bytes,
\* equal tokens get equal indices.
C6_ToVecInterning ==
    /\ \A i, j \in DOMAIN msg.tokens : msg.tokens[i] = msg.tokens[j] => i = j
    /\ \A k \in DOMAIN pushed :
        /\ pushed[k].idx \in 0..(Len(msg.tokens) - 1)
        /\ msg.tokens[pushed[k].idx + 1] = Token_to_vec(pushed[k].token)
    /\ \A k, l \in DOMAIN pushed :
        pushed[k].token = pushed[l].token => pushed[k].idx = pushed[l].idx

C6_Witness ==
    /\ Len(pushed) = 3
    /\ pushed[1].token = pushed[3].token
    /\ pushed[1].token # pushed[2].token
    /\ pushed[3].idx = 0
    /\ Len(msg.tokens) = 2

WantTypes == {WantType_Have, WantType_Block}

PresenceTypes == {BlockPresenceType_Have, BlockPresenceType_DontHave}

WantsOf(m) == IF m.wantlist = <<>> THEN <<>> ELSE m.wantlist[1].entries

Dangling(m, ix) == \E i \in DOMAIN ix : ix[i] < 0 \/ ix[i] >= Len(m.tokens)

HasDangling(m) ==
    \/ \E i \in DOMAIN WantsOf(m) : Dangling(m, WantsOf(m)[i].tokens)
    \/ \E i \in DOMAIN m.payload : Dangling(m, m.payload[i].tokens)
    \/ \E i \in DOMAIN m.blockPresences : Dangling(m, m.blockPresences[i].tokens)

HasLiveDangling(m) ==
    \/ \E i \in DOMAIN WantsOf(m) :
        /\ WantsOf(m)[i].sendDontHave
        /\ WantsOf(m)[i].wantType \in WantTypes
        /\ Dangling(m, WantsOf(m)[i].tokens)
    \/ \E i \in DOMAIN m.payload : Dangling(m, m.payload[i].tokens)
    \/ \E i \in DOMAIN m.blockPresences :
        /\ m.blockPresences[i].type_pb \in PresenceTypes
        /\ Dangling(m, m.blockPresences[i].tokens)

WellFormed(m) ==
    /\ \A i \in DOMAIN WantsOf(m) : IsOk(Cid_read_bytes(WantsOf(m)[i].block))
    /\ \A i \in DOMAIN m.payload :
        IsOk(Prefix_to_cid(m.payload[i].prefix, m.payload[i].data))
    /\ \A i \in DOMAIN m.blockPresences : IsOk(Cid_read_bytes(m.blockPresences[i].cid))
    /\ \A i \in DOMAIN m.tokens : IsOk(Token_from_bytes(m.tokens[i]))

WithoutSkipped(m) ==
    [m EXCEPT
        !.wantlist = IF m.wantlist = <<>> THEN <<>>
                     ELSE <<[entries |-> SelectSeq(m.wantlist[1].entries,
                                LAMBDA e : e.sendDontHave /\ e.wantType \in WantTypes)]>>,
        !.blockPresences = SelectSeq(m.blockPresences,
                                LAMBDA p : p.type_pb \in PresenceTypes)]

\* the same, an entry with an unrecognized type kept when its identifier
\* bytes are malformed
WithoutSkippedWellFormed(m) ==
    [m EXCEPT
        !.wantlist = IF m.wantlist = <<>> THEN <<>>
                     ELSE <<[entries |-> SelectSeq(m.wantlist[1].entries,
                                LAMBDA e : e.sendDontHave
                                    /\ (e.wantType \in WantTypes
                                        \/ ~IsOk(Cid_read_bytes(e.block))))]>>,
        !.blockPresences = SelectSeq(m.blockPresences,
                                LAMBDA p : p.type_pb \in PresenceTypes
                                    \/ ~IsOk(Cid_read_bytes(p.cid)))]

\* C8 as stated: from_bytes drops every want-list entry with send-dont-have
\* false or an unrecognized want-type and every block presence with an
\* unrecognized type, and returns what it returns for the message without them.
C8_SkipNotFail ==
    last.op = "compat_from_bytes" =>
        last.res = CompatMessage_from_bytes(write_message(WithoutSkipped(last.arg.pb)))

\* C8 amended: the same of every want-list entry with send-dont-have false,
\* and of every entry with an unrecognized type whose identifier bytes are
\* well-formed.
C8_SkipWellFormed ==
    last.op = "compat_from_bytes" =>
        last.res = CompatMessage_from_bytes(
                       write_message(WithoutSkippedWellFormed(last.arg.pb)))

C8_Witness ==
    /\ last.op = "compat_from_bytes"
    /\ Len(WantsOf(last.arg.pb)) = 2
    /\ ~WantsOf(last.arg.pb)[1].sendDontHave
    /\ WantsOf(last.arg.pb)[2].sendDontHave
    /\ IsOk(last.res)
    /\ Len(last.res.val) = 1
    /\ last.res.val[1].is = "Request"

(***************************************************************************)
(* One codec used for call after call, stale holding the buffer as the     *)
(* last call found it.                                                     *)
(***************************************************************************)
ReuseRequests ==
    {BitswapRequest("Have", GoodCid, <<>>),
     BitswapRequest("Block", GoodCid, <<Token(300, OfSeq(<<200, 0>>))>>)}
        \cup BigRequests

ReuseResponses ==
    {Have(TRUE), Block(<<>>), Block(OfSeq(<<0, 200, 200>>)),
     Block(BFill(7, ResponseCeiling - 1)), Block(BFill(7, ResponseCeiling))}

\* frames on the stream: whole, cut short, followed by the bytes of a next
\* frame, and declaring more than the ceiling
ReuseFrames(payloads, ceiling) ==
    {Frame(BLen(p), p) : p \in payloads}
        \cup {Frame(BLen(p) + 2, p) : p \in payloads}
        \cup {Frame(BLen(p), BCat(p, OfSeq(<<1, 200>>))) : p \in payloads}
        \cup {Frame(ceiling + 1, OfSeq(<<7>>))}

ReuseRequestFrames ==
    ReuseFrames({BitswapRequest_write_to(r, <<>>) : r \in ReuseRequests \ BigRequests}
                    \cup {<<>>, OfSeq(<<3>>)},
                RequestCeiling)

ReuseResponseFrames ==
    ReuseFrames({OfSeq(<<0>>), OfSeq(<<2>>), OfSeq(<<1>>), OfSeq(<<1, 0, 200, 200>>),
                 OfSeq(<<3>>), <<>>},
                ResponseCeiling)

ReuseReadRequest(f) ==
    \E r \in {read_request(buffer, Stream(f))} :
    /\ stale' = buffer
    /\ buffer' = r.buffer
    /\ last' = Call("read_request", f, r.res, r.alloc)
    /\ UNCHANGED <<wire, msg, pushed, inp>>

ReuseReadResponse(f) ==
    \E r \in {read_response(buffer, Stream(f))} :
    /\ stale' = buffer
    /\ buffer' = r.buffer
    /\ last' = Call("read_response", f, r.res, r.alloc)
    /\ UNCHANGED <<wire, msg, pushed, inp>>

ReuseWriteRequest(req) ==
    \E r \in {write_request(buffer, req)} :
    /\ stale' = buffer
    /\ buffer' = r.buffer
    /\ wire' = r.out
    /\ last' = Call("write_request", req, r.res, 0)
    /\ UNCHANGED <<msg, pushed, inp>>

ReuseWriteResponse(res) ==
    \E r \in {write_response(buffer, res)} :
    /\ stale' = buffer
    /\ buffer' = r.buffer
    /\ wire' = r.out
    /\ last' = Call("write_response", res, r.res, 0)
    /\ UNCHANGED <<msg, pushed, inp>>

NextReuse ==
    \/ \E f \in ReuseRequestFrames : ReuseReadRequest(f)
    \/ \E f \in ReuseResponseFrames : ReuseReadResponse(f)
    \/ \E r \in ReuseRequests : ReuseWriteRequest(r)
    \/ \E r \in ReuseResponses : ReuseWriteResponse(r)

ReuseSpec == Init /\ [][NextReuse]_vars

\* the frame's declared bytes are all on the stream and within the ceiling
Complete(f, ceiling) == f.len <= ceiling /\ BLen(f.payload) >= f.len

\* the caller's view of from_bytes(...).map_err(invalid_data)
Mapped(d) == IF IsErr(d) THEN invalid_data(d) ELSE IF IsOk(d) THEN Ok(d.val) ELSE d

\* C11: whatever earlier calls left in the buffer, a read returns what a new
\* codec returns for the same stream; a read of a complete frame decodes the
\* first msg_len bytes of its own payload and leaves exactly them in the
\* buffer; a write returns what a new codec returns, leaves the encoding of
\* its own value in the buffer and, when it succeeds, puts varint(len) and
\* that encoding on the stream.
C11_BufferReuse ==
    /\ last.op = "read_request" =>
        /\ last.res = read_request(<<>>, Stream(last.arg)).res
        /\ Complete(last.arg, RequestCeiling) =>
            /\ buffer = BTake(last.arg.payload, last.arg.len)
            /\ last.res = Mapped(BitswapRequest_from_bytes(
                                    BTake(last.arg.payload, last.arg.len)))
    /\ last.op = "read_response" =>
        /\ last.res = read_response(<<>>, Stream(last.arg)).res
        /\ Complete(last.arg, ResponseCeiling) =>
            /\ buffer = BTake(last.arg.payload, last.arg.len)
            /\ last.res = Mapped(BitswapResponse_from_bytes(
                                    BTake(last.arg.payload, last.arg.len))
                                  @@ [alloc |-> 0])
    /\ last.op = "write_request" =>
        /\ last.res = write_request(<<>>, last.arg).res
        /\ buffer = BitswapRequest_write_to(last.arg, <<>>)
        /\ IsOk(last.res) => wire = BCat(VarintEncode(BLen(buffer)), buffer)
    /\ last.op = "write_response" =>
        /\ last.res = write_response(<<>>, last.arg).res
        /\ buffer = BitswapResponse_write_to(last.arg, <<>>)
        /\ IsOk(last.res) => wire = BCat(VarintEncode(BLen(buffer)), buffer)

\* a block response read whole by a codec whose buffer holds the encoding a
\* failed write left there
C11_Witness ==
    /\ last.op = "read_response"
    /\ BLen(stale) = ResponseCeiling + 1
    /\ last.arg.len = 4
    /\ last.res = Ok(Block(OfSeq(<<0, 200, 200>>)))
    /\ BLen(buffer) = 4

====
